---- MODULE Spec2Model ----
(***************************************************************************)
(* Model of the Bitbucket pipe: the entry orchestrator (main), the         *)
(* configuration check (collectInputs), the assistant runner               *)
(* (runClaudeCode) and the comment stream updater (updateCommentStream).   *)
(*                                                                         *)
(* Strings are sequences of one-character strings.  A line of the          *)
(* subprocess's stdout is written in a compact notation of the JSON        *)
(* events of the stream-json format:                                       *)
(*    {xyz}   an assistant message; every lower-case letter is one text    *)
(*            content block carrying that letter, every "X" or "Y" is one  *)
(*            tool_use content block naming that tool                      *)
(*    {Rxy}   a result event whose result text is xy ({R}: no result text) *)
(*    {Cxy}   a legacy completion event whose data.content is xy           *)
(*    {S}     an event of another type (system)                            *)
(*    {}      a JSON object without a type                                 *)
(* Blanks around the braces are JSON whitespace.  Every other line makes   *)
(* JSON.parse throw.                                                       *)
(***************************************************************************)
EXTENDS Integers, Sequences, FiniteSets, TLC

\* ------------------------------------------------------------------ bounds
MaxLines == 2
MaxTicks == 2
MaxStderr == 1
MaxCalls == 3
MaxWords == 3
MaxComments == 3
MaxRuns == 2

\* --------------------------------------------------------- program constants
UPDATE_THROTTLE_MS == 1000
\* granularity of the model's clock, in ms
TickMs == UPDATE_THROTTLE_MS \div 2
\* Date.now() when the process starts (an epoch time, far above
\* UPDATE_THROTTLE_MS, while lastUpdateTime starts at 0)
StartTime == 2 * UPDATE_THROTTLE_MS
\* values of BITBUCKET_PR_ID; 0 stands for "not set" (prId undefined)
PrIds == {0, 7}
\* exit codes of the subprocess; NullCode is the null of an exit by signal
NullCode == 0 - 1
ExitCodes == {0, 1, NullCode}

NL == "\n"
SP == " "
TextChars == {"a", "b", "c", "r"}
ToolChars == {"X", "Y"}

\* ------------------------------------------------------------ string helpers
RECURSIVE SplitOn(_, _)
SplitOn(s, sep) ==
  IF \A i \in 1..Len(s) : s[i] # sep THEN <<s>>
  ELSE LET k == CHOOSE i \in 1..Len(s) :
                  s[i] = sep /\ \A j \in 1..(i - 1) : s[j] # sep
       IN  <<SubSeq(s, 1, k - 1)>> \o SplitOn(SubSeq(s, k + 1, Len(s)), sep)

Trim(s) ==
  IF \A i \in 1..Len(s) : s[i] = SP THEN <<>>
  ELSE LET lo == CHOOSE i \in 1..Len(s) : s[i] # SP /\ \A j \in 1..(i - 1) : s[j] = SP
           hi == CHOOSE i \in 1..Len(s) : s[i] # SP /\ \A j \in (i + 1)..Len(s) : s[j] = SP
       IN  SubSeq(s, lo, hi)

RECURSIVE JoinLines(_)
JoinLines(ls) ==
  IF ls = <<>> THEN <<>> ELSE Head(ls) \o <<NL>> \o JoinLines(Tail(ls))

Front(s) == SubSeq(s, 1, Len(s) - 1)
Last(s) == s[Len(s)]

\* ------------------------------------------------------------------ JSON.parse
NoEvent == [ok |-> FALSE, type |-> "none", blocks |-> <<>>, text |-> <<>>]

BlockOf(ch) ==
  IF ch \in ToolChars THEN [type |-> "tool_use", val |-> ch]
  ELSE [type |-> "text", val |-> ch]

ParseJSON(line) ==
  LET t == Trim(line) IN
  IF Len(t) < 2 \/ t[1] # "{" \/ t[Len(t)] # "}" THEN NoEvent
  ELSE LET mid == SubSeq(t, 2, Len(t) - 1) IN
       IF mid = <<>> THEN [NoEvent EXCEPT !.ok = TRUE, !.type = "other"]
       ELSE IF mid[1] \in {"R", "C"} /\ \A i \in 2..Len(mid) : mid[i] \in TextChars
         THEN [ok |-> TRUE,
               type |-> IF mid[1] = "R" THEN "result" ELSE "completion",
               blocks |-> <<>>, text |-> Tail(mid)]
       ELSE IF mid = <<"S">> THEN [NoEvent EXCEPT !.ok = TRUE, !.type = "other"]
       ELSE IF \A i \in 1..Len(mid) : mid[i] \in TextChars \cup ToolChars
         THEN [ok |-> TRUE, type |-> "assistant",
               blocks |-> [i \in 1..Len(mid) |-> BlockOf(mid[i])], text |-> <<>>]
       ELSE NoEvent

\* ------------------------------------------------------------------ state
VARIABLES
  env,            \* process.env as collectInputs reads it
  opts,           \* RunOptions / config fields the runner reads
  script,         \* everything the subprocess writes to stdout before it exits
  mpc,            \* position of main()
  rpc,            \* position of runClaudeCode()
  tempDir,        \* "null" | "exists" | "removed"
  status, error, currentContent, turns,
  buffer, stderrOutput,
  timer,          \* "unset" | "armed" | "fired" | "cleared" (before firing)
  proc,           \* "none" | "running" | "spawnfail" | "killfail" | "exited"
  exitCode,       \* code passed to the exit handler (NullCode before it)
  outPos,         \* number of characters of script delivered as data events
  handlers,       \* stdout handlers suspended in await updateCommentStream
  mainPost,       \* comment of the update the runner's body awaited last
  result,         \* the ClaudeResult returned (turns are shared with `turns`)
  lastUpdateTime, \* module-level variable of comment-stream.ts
  now,            \* Date.now()
  prComments,     \* comments created on the pull request, in order
  consoleOut,     \* banner outputs written to the console
  lastCall,       \* history: the latest call of updateCommentStream
  partialAt,      \* history: time of the latest accepted partial update
  parsed,         \* history: every line handed to JSON.parse
  calls,          \* number of calls made by the call-sequence driver
  runs,           \* number of invocations of runClaudeCode begun in the process
  childEnv,       \* authentication methods whose variables the subprocess gets
  prep            \* prepare(): its inputs, its position and what it returns

vars == <<env, opts, script, mpc, rpc, tempDir, status, error, currentContent,
          turns, buffer, stderrOutput, timer, proc, exitCode, outPos, handlers,
          mainPost, result, lastUpdateTime, now, prComments, consoleOut,
          lastCall, partialAt, parsed, calls, runs, childEnv, prep>>

inputVars == <<env, opts, script>>
mainVars == <<mpc>>
runVars == <<rpc, tempDir, status, error, currentContent, turns, buffer,
             stderrOutput, timer, proc, exitCode, outPos, handlers, mainPost,
             result, parsed>>
streamVars == <<lastUpdateTime, prComments, consoleOut, lastCall, partialAt>>
callVars == <<lastUpdateTime, lastCall, partialAt>>

\* prepare() has not been entered
NoPrep == [pc |-> "idle"]

\* ------------------------------------------------------------------ errors
ErrNone == [kind |-> "none", text |-> <<>>, code |-> 0]
ErrStderr(t) == [kind |-> "stderr", text |-> t, code |-> 0]
ErrTimeout == [kind |-> "timeout", text |-> <<>>, code |-> 0]
ErrExit(c) == [kind |-> "exit", text |-> <<>>, code |-> c]
ErrThrown(k) == [kind |-> k, text |-> <<>>, code |-> 0]

NoComment == [kind |-> "none", banner |-> "none", body |-> <<>>, footer |-> "none"]
NoResult == [status |-> "none", error |-> ErrNone]

\* ---------------------------------------------------- updateCommentStream
\* variants of the throttle test: a window half as long; a throttle that
\* does not look at isPartial
ThrottledHalfWindow(isPartial, t, last) ==
  isPartial /\ t - last < UPDATE_THROTTLE_MS \div 2
ThrottledAnyUpdate(isPartial, t, last) == t - last < UPDATE_THROTTLE_MS

\* comment-stream.ts:28: the throttle test
Throttled(isPartial, t, last) == isPartial /\ t - last < UPDATE_THROTTLE_MS

StatusText(st) ==
  IF st = "success" THEN "[COMPLETED]"
  ELSE IF st = "error" THEN "[FAILED]" ELSE "[TIMED OUT]"

FormatContent(isPartial, content, st) ==
  IF isPartial
    THEN [kind |-> "partial", banner |-> "responding", body |-> Trim(content),
          footer |-> "none"]
    ELSE [kind |-> "final", banner |-> StatusText(st),
          body |-> IF content = <<>> THEN <<"No response generated">> ELSE content,
          footer |-> st]

\* where an accepted update goes: "remote" is an awaited call of the REST
\* API, "caught" an exception thrown and caught inside updateCommentStream
\* (the BitbucketAPI wrapper has no createInlineComment), "console" the
\* fallback output, "dropped" nothing at all
PostKind(hasToken, inline, isPartial) ==
  IF hasToken THEN (IF inline THEN "caught" ELSE "remote")
  ELSE IF isPartial THEN "dropped" ELSE "console"

\* comment-stream.ts:57-72: the method of BitbucketAPI an accepted update is
\* handed to and the parent comment id it passes on.  `defined` tells
\* whether the BitbucketAPI wrapper has the method: it has no
\* createInlineComment, and its createPullRequestComment(prId, content)
\* takes no parent id (0: none).
PostRoute(inline, parent) ==
  IF inline
    THEN [api |-> "createInlineComment", parent |-> parent, defined |-> FALSE]
    ELSE [api |-> "createPullRequestComment", parent |-> 0, defined |-> TRUE]

NoRoute == [api |-> "none", parent |-> 0, defined |-> FALSE]

\* variant: a failed REST call rejects the promise
UpdateSettlesByResult(ok) == IF ok THEN "resolved" ELSE "rejected"

\* how the promise of updateCommentStream settles once the REST call has
\* returned (ok) or failed (~ok): the try/catch around the call swallows it
UpdateSettles(ok) == "resolved"

\* the synchronous part of one call at time t; c is the call state
\* [last, call, pat] (lastUpdateTime, lastCall, partialAt).  The entry of
\* the call records the invocation of runClaudeCode it belongs to (run) and
\* the invocation whose update set lastUpdateTime to the value the call
\* reads (lastBy; 0 for the value of the module's load)
NoCall == [partial |-> FALSE, at |-> 0, gap |-> 0, since |-> 0, outcome |-> "none",
           route |-> NoRoute, run |-> 0, lastBy |-> 0]

UpdateCall(isPartial, content, st, hasToken, inline, t, c) ==
  LET entry == [partial |-> isPartial, at |-> t, gap |-> t - c.last,
                since |-> t - c.pat, outcome |-> "suppressed", route |-> NoRoute,
                run |-> runs,
                lastBy |-> IF c.call.outcome \in {"none", "suppressed"}
                             THEN c.call.lastBy ELSE c.call.run]
      kind == PostKind(hasToken, inline, isPartial)
  IN
  IF Throttled(isPartial, t, c.last)
    THEN [kind |-> "suppressed", comment |-> NoComment,
          c |-> [c EXCEPT !.call = entry]]
    ELSE [kind |-> kind, comment |-> FormatContent(isPartial, content, st),
          c |-> [last |-> t,
                 call |-> [entry EXCEPT !.outcome = kind,
                                        !.route = IF hasToken
                                                    THEN PostRoute(inline, opts.parent)
                                                    ELSE NoRoute],
                 pat |-> IF isPartial THEN t ELSE c.pat]]

CallState == [last |-> lastUpdateTime, call |-> lastCall, pat |-> partialAt]

CallEffect(c) ==
  /\ lastUpdateTime' = c.last
  /\ lastCall' = c.call
  /\ partialAt' = c.pat

\* ------------------------------------------------------------------ time
\* Date.now() is read by updateCommentStream alone.  `now` is the value of
\* the last read; a step that reads the clock (reads = TRUE) finds it at
\* that value or later.  The runner's steps see the clock in steps of the
\* throttle window, the call sequences of SpecStream in steps of TickMs.
ClockReads(reads) ==
  IF reads
    THEN {t \in {now, now + UPDATE_THROTTLE_MS}
                \cup (IF mpc = "driver" THEN {now + TickMs} ELSE {}) :
            t <= StartTime + MaxTicks * TickMs}
    ELSE {now}

\* ------------------------------------------------------------ the runner
HasToken == env.token
HasPR == env.prId # 0 /\ env.token

\* variant: partial updates are pushed whatever the streaming flag says
StreamOnWithoutFlag == HasPR

\* runner.ts:818, 947
StreamOn == HasPR /\ opts.streaming

\* variant: the incomplete last line is not kept
KeptBufferDropped(segs) == <<>>

\* runner.ts:926-927: the lines of the buffer and the rest kept for later
CompleteLines(segs) == Front(segs)
KeptBuffer(segs) == Last(segs)

ToolTurn(name) == [kind |-> "tool", val |-> <<name>>]
TextTurn(text) == [kind |-> "text", val |-> text]

\* runner.ts:973-987
ApplyResult(content, text) ==
  IF text # <<>> /\ content = <<>> THEN text ELSE content
ApplyCompletion(content, text) ==
  IF text # <<>> THEN text ELSE content

NoCont == [blocks |-> <<>>, lines |-> <<>>, comment |-> NoComment]

\* variant: a line JSON.parse rejects ends the loop over the lines
AfterBadLineStops(rest) == <<>>

\* runner.ts:988-991: the catch block stands inside the loop, which goes on
\* with the lines after the rejected one
AfterBadLine(rest) == rest

\* One run of the stdout handler from a list of lines (and the rest of the
\* content blocks of the line in hand) up to its end or to the next await of
\* a REST call.  st = [content, turns, c, parsed, t, stream];
\* t is Date.now(), stream the test of runner.ts:947.
RECURSIVE ProcessLines(_, _)
RECURSIVE ProcessBlocks(_, _, _)
ProcessBlocks(st, blocks, lines) ==
  IF blocks = <<>> THEN ProcessLines(st, lines)
  ELSE LET b == Head(blocks) IN
    IF b.type = "text"
      THEN LET c == st.content \o <<b.val>>
               s1 == [st EXCEPT !.content = c]
           IN  IF st.stream
                 THEN LET u == UpdateCall(TRUE, c, "none", HasToken, opts.inline,
                                          st.t, st.c)
                          s2 == [s1 EXCEPT !.c = u.c]
                      IN  IF u.kind = "remote"
                            THEN [st |-> s2, susp |-> TRUE,
                                  k |-> [blocks |-> Tail(blocks), lines |-> lines,
                                         comment |-> u.comment]]
                            ELSE ProcessBlocks(s2, Tail(blocks), lines)
                 ELSE ProcessBlocks(s1, Tail(blocks), lines)
      ELSE ProcessBlocks([st EXCEPT !.turns = Append(@, ToolTurn(b.val))],
                         Tail(blocks), lines)

ProcessLines(st, lines) ==
  IF lines = <<>> THEN [st |-> st, susp |-> FALSE, k |-> NoCont]
  ELSE LET line == Head(lines)
           rest == Tail(lines)
       IN  IF Trim(line) = <<>> THEN ProcessLines(st, rest)
           ELSE LET ev == ParseJSON(line)
                    s0 == [st EXCEPT !.parsed = Append(@, line)]
                IN  IF ~ev.ok THEN ProcessLines(s0, AfterBadLine(rest))
                    ELSE IF ev.type = "assistant"
                      THEN ProcessBlocks(s0, ev.blocks, rest)
                    ELSE IF ev.type = "result"
                      THEN ProcessLines(
                             [s0 EXCEPT !.content = ApplyResult(@, ev.text)], rest)
                    ELSE IF ev.type = "completion"
                      THEN ProcessLines(
                             [s0 EXCEPT !.content = ApplyCompletion(@, ev.text)], rest)
                    ELSE ProcessLines(s0, rest)

HandlerState(t) ==
  [content |-> currentContent, turns |-> turns, c |-> CallState,
   parsed |-> parsed, t |-> t, stream |-> StreamOn]

\* the effect of a handler run r on the variables it writes
HandlerEffect(r, others) ==
  /\ currentContent' = r.st.content
  /\ turns' = r.st.turns
  /\ CallEffect(r.st.c)
  /\ parsed' = r.st.parsed
  /\ now' = r.st.t
  /\ handlers' = IF r.susp THEN Append(others, r.k) ELSE others

\* --------------------------------------------------------- collectInputs
\* collect-inputs.ts:73
AuthConfigured(e) == e.apiKey \/ e.aws \/ e.gcp
\* variant: one of the two coordinates is enough
ContextPresentEither(e) == e.workspace \/ e.repoSlug

\* collect-inputs.ts:80
ContextPresent(e) == e.workspace /\ e.repoSlug
\* collect-inputs.ts:68-103: TRUE when a config is returned, FALSE when it throws
CollectOK(e) == e.schemaOk /\ AuthConfigured(e) /\ ContextPresent(e)

\* ------------------------------------------------------- classifyRequest
\* A request text is a list of words separated by single blanks plus a
\* number of blanks around it: [words, pad].  The regular expressions of
\* part_003 are read word by word; the reading is exact for the words of
\* Lexicon (no word of Lexicon other than "prefix" contains an action verb
\* without being one, and none begins with a word of a class without being
\* that word).
Vocabulary == {"fix", "prefix", "please", "explain", "what", "it"}

DefaultWords == {"please", "help", "with", "this", "pr", "review", "pull",
                 "request", "and", "provide", "feedback"}

Lexicon == Vocabulary \cup DefaultWords

\* part_003:13: the verbs of the first, second and third actionable pattern
ActionVerbs ==
  {"change", "update", "fix", "add", "remove", "delete", "modify", "replace",
   "rename", "move", "create", "implement", "refactor", "optimize", "improve",
   "enhance", "correct", "adjust", "alter", "revise", "edit", "write", "make",
   "set", "turn", "switch", "convert", "transform", "migrate"}

\* part_003:37: the verbs of the negative lookahead of the question pattern
LookaheadVerbs ==
  {"change", "update", "fix", "add", "remove", "delete", "modify", "replace",
   "create", "implement"}

PolitePhrases ==
  {<<"could", "you">>, <<"can", "you">>, <<"please">>, <<"would", "you">>,
   <<"will", "you">>, <<"help", "me">>, <<"i", "need", "you", "to">>,
   <<"i", "want", "you", "to">>}

Comparatives == {"darker", "lighter", "bigger", "smaller", "larger", "wider",
                 "narrower", "thicker", "thinner"}
Dimensions == {"shade", "color", "size", "width", "height", "margin", "padding"}
StyleAdjectives == {"darker", "lighter", "different", "another", "new"}
StyleNouns == {"shade", "color", "style", "theme"}
BugPhrases ==
  {<<"bug">>, <<"issue">>, <<"problem">>, <<"error">>, <<"broken">>, <<"wrong">>,
   <<"incorrect">>, <<"failing">>, <<"not", "working">>, <<"doesn't", "work">>,
   <<"isn't", "working">>}
FixVerbs == {"fix", "solve", "resolve", "correct"}
FeatureVerbs == {"add", "implement", "create"}
FeatureNouns == {"feature", "functionality", "capability", "option", "setting",
                 "button", "component", "page", "endpoint", "api", "method",
                 "function"}

QuestionWords == {"what", "where", "when", "why", "how", "which", "who", "whose"}
ExplainPhrases ==
  {<<"explain">>, <<"describe">>, <<"tell", "me", "about">>, <<"what", "does">>,
   <<"how", "does">>, <<"show", "me", "how">>, <<"walk", "me", "through">>,
   <<"guide", "me">>, <<"teach", "me">>}
AnalyzePhrases ==
  {<<"analyze">>, <<"review">>, <<"check">>, <<"inspect">>, <<"look", "at">>,
   <<"examine">>, <<"evaluate">>, <<"assess">>}
AndFixVerbs == {"fix", "change", "update", "modify"}
DocWords == {"document", "documentation", "docs", "readme", "comment",
             "comments", "explanation"}
DocVerbs == {"update", "add", "write", "create"}
UnderstandPhrases ==
  {<<"understand">>, <<"clarify">>, <<"meaning", "of">>, <<"purpose", "of">>,
   <<"reason", "for">>}

\* the action verbs that occur inside a word of Lexicon
VerbsInside(w) == IF w = "prefix" THEN {"fix"} ELSE {w} \cap ActionVerbs

\* the words of phrase ph stand at positions i, i+1, ... of ws
PhraseAt(ws, i, ph) ==
  /\ i + Len(ph) - 1 <= Len(ws)
  /\ \A k \in 1..Len(ph) : ws[i + k - 1] = ph[k]

\* text.length of the words joined by single blanks
RECURSIVE TextLength(_)
TextLength(ws) ==
  IF ws = <<>> THEN 0
  ELSE Len(Head(ws)) + (IF Len(ws) > 1 THEN 1 ELSE 0) + TextLength(Tail(ws))

\* part_003:11-30, in the order of the array
ACTIONABLE_PATTERNS(ws) ==
  LET n == Len(ws) IN
  << \E i \in 1..n : ws[i] \in ActionVerbs,
     \E i \in 1..n, ph \in PolitePhrases :
        /\ PhraseAt(ws, i, ph)
        /\ LET j == i + Len(ph) IN
           /\ j <= n
           /\ \/ VerbsInside(ws[j]) # {}
              \/ (j + 1 <= n /\ ws[j + 1] \in ActionVerbs),
     n >= 2 /\ ws[1] \in ActionVerbs,
     \E i \in 1..(n - 1) : ws[i] \in Comparatives /\ ws[i + 1] \in Dimensions,
     \E i \in 1..n :
        /\ ws[i] = "to"
        /\ \E a \in {0, 1} :
              /\ i + a + 2 <= n
              /\ (a = 1 => ws[i + 1] = "a")
              /\ ws[i + a + 1] \in StyleAdjectives
              /\ ws[i + a + 2] \in StyleNouns,
     \E i \in 1..n, ph \in BugPhrases :
        /\ PhraseAt(ws, i, ph)
        /\ \E j \in (i + Len(ph))..n : ws[j] \in FixVerbs,
     \E i \in 1..n :
        /\ ws[i] \in FeatureVerbs
        /\ \E a \in {0, 1}, b \in {0, 1} :
              /\ i + a + b + 1 <= n
              /\ (a = 1 => ws[i + 1] = "a")
              /\ (b = 1 => ws[i + a + 1] = "new")
              /\ ws[i + a + b + 1] \in FeatureNouns >>

\* part_003:35-50, in the order of the array
INFORMATIONAL_PATTERNS(ws) ==
  LET n == Len(ws) IN
  << /\ n >= 2
     /\ ws[1] \in QuestionWords
     /\ \A j \in 2..n : VerbsInside(ws[j]) \cap LookaheadVerbs = {},
     \E i \in 1..n, ph \in ExplainPhrases : PhraseAt(ws, i, ph),
     \E i \in 1..n, ph \in AnalyzePhrases :
        /\ PhraseAt(ws, i, ph)
        /\ ~ \E j \in (i + Len(ph))..(n - 1) :
                ws[j] = "and" /\ ws[j + 1] \in AndFixVerbs,
     \E i \in 1..n :
        /\ ws[i] \in DocWords
        /\ \A j \in (i + 1)..n : VerbsInside(ws[j]) \cap DocVerbs = {},
     \E i \in 1..n, ph \in UnderstandPhrases : PhraseAt(ws, i, ph) >>

\* `patterns.some(p => p.test(text))`
SomePattern(ps) == \E k \in DOMAIN ps : ps[k]

\* variants: a shorter limit; an informational match that is not
\* double-checked against the actionable patterns
TooShortBelowFive(len) == len < 5
InformationalReturnsUnchecked(info, act) == info

\* part_003:62
TooShort(len) == len < 10

\* part_003:67-75: the first loop returns "informational"
InformationalReturns(info, act) == info /\ ~act

\* variant: a text no pattern matches is taken as a request for changes
DefaultTypeActionable == "actionable"

\* part_003:84-85: the result when no loop has returned
DefaultType == "informational"

\* part_003:57-86
classifyRequest(text) ==
  LET normalizedText == text.words
      act == SomePattern(ACTIONABLE_PATTERNS(normalizedText))
      info == SomePattern(INFORMATIONAL_PATTERNS(normalizedText))
  IN  IF TooShort(TextLength(normalizedText)) THEN "informational"
      ELSE IF InformationalReturns(info, act) THEN "informational"
      ELSE IF act THEN "actionable"
      ELSE DefaultType

\* one call of classifyRequest on the text in prep
Classify ==
  /\ prep.pc = "classify"
  /\ prep' = [prep EXCEPT !.pc = "classified", !.type = classifyRequest(prep.text)]
  /\ UNCHANGED <<inputVars, childEnv, mpc, runVars, streamVars, now, calls, runs>>

\* ------------------------------------------------------------------ main
FatalComment ==
  [kind |-> "fatal", banner |-> "main-error", body |-> <<"## Error">>,
   footer |-> "error"]

\* variant: a failed error comment escapes the catch block
FatalExitIfPosted(cfgOk, postOk) ==
  IF cfgOk /\ ~postOk THEN "rejected" ELSE "exit1"

\* part_012:96-118: where main's catch block ends, given the outcome of the
\* second collectInputs and of the error comment: `.catch(() => null)` and
\* the try/catch around updateComment swallow both failures
FatalExit(cfgOk, postOk) == "exit1"

\* main's catch block: a second collectInputs, a best-effort error comment,
\* process.exit(1)
Fatal ==
  /\ \E ok \in BOOLEAN :
       /\ mpc' = FatalExit(CollectOK(env), ok)
       /\ prComments' = IF CollectOK(env) /\ HasPR /\ ok
                          THEN Append(prComments, FatalComment) ELSE prComments
  /\ UNCHANGED <<inputVars, prep, childEnv, runVars, callVars, now, consoleOut, calls, runs>>

\* ------------------------------------------------------------------ prepare
\* The trigger phrase is one word of a text; a fetched comment is
\* [words, inline], its id is its position in the fetched list.
TriggerPhrase == "@claude"

Modes == {"tag", "agent", "experimental-review"}
Triggers == {"PULL_REQUEST", "PUSH", "TAG", "MANUAL", "SCHEDULE", "none"}

\* modes/index.ts:25-36: the handler of a mode name; "none" when the switch
\* falls to its default branch and throws
getModeHandler(modeName) == IF modeName \in Modes THEN modeName ELSE "none"

\* part_010:397, 440, 453: the requests used when none is written
DefaultReview == <<"please", "review", "this", "pull", "request">>
DefaultHelp == <<"please", "help", "with", "this", "pr">>
DefaultFeedback == <<"please", "review", "this", "pull", "request", "and",
                     "provide", "feedback">>

\* `content.includes(triggerPhrase)`
Includes(ws) == \E i \in DOMAIN ws : ws[i] = TriggerPhrase

\* `content.split(triggerPhrase)[1]?.trim()`: the words between the first
\* and the second occurrence of the phrase
AfterTrigger(ws) ==
  LET first == CHOOSE i \in DOMAIN ws :
                  ws[i] = TriggerPhrase /\ \A j \in 1..(i - 1) : ws[j] # TriggerPhrase
      rest == SubSeq(ws, first + 1, Len(ws))
      stop == IF Includes(rest)
                THEN CHOOSE i \in DOMAIN rest :
                        rest[i] = TriggerPhrase
                        /\ \A j \in 1..(i - 1) : rest[j] # TriggerPhrase
                ELSE Len(rest) + 1
  IN  SubSeq(rest, 1, stop - 1)

\* `... || "default"`
RequestOr(ws, default) == IF ws = <<>> THEN default ELSE ws

\* variant: the scan takes the first comment with the phrase
FirstMention(comments) ==
  IF \E i \in DOMAIN comments : Includes(comments[i].words)
    THEN CHOOSE i \in DOMAIN comments :
            Includes(comments[i].words)
            /\ \A j \in 1..(i - 1) : ~Includes(comments[j].words)
    ELSE 0

\* part_010:409-443 (198-229): the loop from the end of the list to the
\* first comment with the phrase; 0 when there is none
LastMention(comments) ==
  IF \E i \in DOMAIN comments : Includes(comments[i].words)
    THEN CHOOSE i \in DOMAIN comments :
            Includes(comments[i].words)
            /\ \A j \in (i + 1)..Len(comments) : ~Includes(comments[j].words)
    ELSE 0

\* prepare/index.ts:102-124
DetectEventType(trigger, pr) ==
  IF trigger = "PULL_REQUEST" THEN "pullrequest:created"
  ELSE IF trigger = "PUSH" THEN "push"
  ELSE IF trigger = "TAG" THEN "tag:created"
  ELSE IF trigger = "MANUAL" THEN "custom:manual"
  ELSE IF trigger = "SCHEDULE" THEN "custom:schedule"
  ELSE IF pr # 0 THEN "pullrequest:updated" ELSE "unknown"

ReviewEvents == {"pullrequest:created", "pullrequest:updated",
                 "pullrequest:approved", "pullrequest:unapproved"}

\* variant: Review mode also runs on a push
ReviewTriggersOnPush(eventType) == eventType \in ReviewEvents \cup {"push"}

\* part_010:157-167
ReviewTriggers(eventType) == eventType \in ReviewEvents

\* shouldTrigger of the handler `mode` for config.mode = configMode
ShouldTrigger(mode, configMode, eventType) ==
  IF mode = "experimental-review" THEN ReviewTriggers(eventType)
  ELSE IF mode = "agent" THEN configMode = "agent"
  ELSE TRUE

\* variants: the informational tool set of Tag mode allows editing; a
\* failing diff fetch is not caught
TagAllowedAlwaysEdit(type) ==
  {"Read", "Edit", "Write", "Grep", "MultiEdit", "Bash", "LS", "Glob"}
FetchPropagatesDiff(fetch) == fetch = "diff"

\* part_010:556-566
TagAllowed(type) ==
  IF type = "actionable"
    THEN {"Read", "Edit", "Write", "Grep", "MultiEdit", "Bash", "LS", "Glob"}
    ELSE {"Read", "Grep"}
TagBlocked(type) ==
  IF type = "actionable" THEN {"Computer"}
  ELSE {"Write", "Edit", "MultiEdit", "Computer"}

\* part_010:324-338
ReviewAllowed(type) ==
  IF type = "actionable"
    THEN {"Read", "Edit", "Write", "Grep", "MultiEdit", "LS", "Glob"}
    ELSE {"Read", "Grep"}
ReviewBlocked(type) ==
  IF type = "actionable" THEN {"Computer"}
  ELSE {"Write", "Edit", "MultiEdit", "Bash", "Computer"}

\* config.allowedTools when ALLOWED_TOOLS pins a list; {} stands for an
\* undefined list (for the command line an empty list is the same)
PinnedTools == {"Read"}
ConfigAllowed(p) == IF p.pinned THEN PinnedTools ELSE {}

\* config.blockedTools when BLOCKED_TOOLS pins a list (collect-inputs.ts:19)
PinnedBlocked == {"Write"}
ConfigBlocked(p) == IF p.pinnedBlocked THEN PinnedBlocked ELSE {}

\* variants: Agent mode allows the shell by default; the classifier is
\* asked although the allowed tools are pinned; the end of an inline
\* range is taken as it comes; main runs whatever prepare returns
AgentAllowedWithBash == {"Read", "Write", "Edit", "Bash"}
UseClassifierIgnoresPins(pinned, request, auto) == request # <<>> /\ auto
InlineContextRawEnd(inl) == inl
MainRunsAlways(shouldRun) == TRUE

\* config.ts:165-166: the defaults of Agent mode
AgentAllowed == {"Read", "Write", "Edit"}
AgentBlocked == {"Bash", "Computer"}

\* part_010:552: whether Tag mode asks the classifier
UseClassifier(pinned, request, auto) == ~pinned /\ request # <<>> /\ auto

\* a comment that is not anchored to a line (comment.inline is undefined);
\* a line number 0 stands for null
NoInline == [path |-> "none", from |-> 0, to |-> 0]

\* part_010:421-425 (213-217): `to: comment.inline.to || comment.inline.from`
InlineContext(inl) ==
  [path |-> inl.path, from |-> inl.from,
   to |-> IF inl.to = 0 THEN inl.from ELSE inl.to]

\* part_012:29: whether main goes on to the runner
MainRuns(shouldRun) == shouldRun

\* whether a failing fetch leaves prepareContext as an exception: the
\* client methods return an empty value (client.ts:98-101, 115-118) and the
\* calls stand in try/catch blocks (part_010:230, 309, 444, 507)
FetchPropagates(fetch) == FALSE

\* runner.ts:802-805, 1156-1164: the tool flags of the command line
BuildClaudeArgs(allowed, blocked) ==
  [allowedTools |-> allowed, disallowedTools |-> blocked]

\* prepare() before it is entered, for given inputs
PrepInputs(mode, trigger, commit, auto, pinned, pinnedBlocked, description, remote) ==
  [pc |-> "start", mode |-> mode, trigger |-> trigger, commit |-> commit,
   auto |-> auto, pinned |-> pinned, pinnedBlocked |-> pinnedBlocked,
   description |-> description,
   remote |-> remote, userRequest |-> <<>>, triggerSource |-> "none",
   commentId |-> 0, inline |-> NoInline, parent |-> 0,
   eventType |-> "none", called |-> {},
   prompt |-> [kind |-> "none", request |-> <<>>, diff |-> FALSE, branch |-> FALSE],
   type |-> "none", allowedTools |-> {}, blockedTools |-> {},
   shouldRun |-> FALSE, failed |-> {}, args |-> BuildClaudeArgs({}, {})]

\* prepare/index.ts:33-44
PrepareReturns(p) == [p EXCEPT !.pc = "returned", !.shouldRun = TRUE]

Failed(p, fetch) == [p EXCEPT !.failed = @ \cup {fetch}]

\* part_010:548-579
TagFinish(p) ==
  IF UseClassifier(p.pinned, p.userRequest, p.auto)
    THEN LET t == classifyRequest([words |-> p.userRequest, pad |-> 0])
         IN  PrepareReturns([p EXCEPT !.type = t, !.allowedTools = TagAllowed(t),
                                      !.blockedTools = TagBlocked(t),
                                      !.called = @ \cup {"classifyRequest"}])
    ELSE PrepareReturns([p EXCEPT !.allowedTools = ConfigAllowed(p),
                                  !.blockedTools = ConfigBlocked(p)])

\* variant: a request found in the description is kept
TagScanDescriptionFirst(p, comments) ==
  LET i == LastMention(comments) IN
  IF i = 0 \/ p.triggerSource = "description" THEN p
  ELSE [p EXCEPT !.inline = IF comments[i].inline = NoInline THEN NoInline
                                ELSE InlineContext(comments[i].inline),
                 !.parent = i,
                 !.triggerSource = "comment", !.commentId = i,
                 !.userRequest = RequestOr(AfterTrigger(comments[i].words),
                                           DefaultHelp)]

\* part_010:409-443: the scan of the fetched comments
TagScan(p, comments) ==
  LET i == LastMention(comments) IN
  IF i = 0 THEN p
  ELSE [p EXCEPT !.inline = IF comments[i].inline = NoInline THEN NoInline
                                ELSE InlineContext(comments[i].inline),
                 !.parent = i,
                 !.triggerSource = "comment", !.commentId = i,
                 !.userRequest = RequestOr(AfterTrigger(comments[i].words),
                                           DefaultHelp)]

\* part_010:451-510: the default request, the prompt, and the fetch of the
\* diff when there is a token
TagAfterComments(p, hasToken) ==
  LET req == RequestOr(p.userRequest, DefaultFeedback)
      p1 == [p EXCEPT !.userRequest = req, !.prompt.kind = "pr",
                      !.prompt.request = req]
  IN  IF hasToken THEN [p1 EXCEPT !.pc = "diff"] ELSE TagFinish(p1)

\* part_010:386-401, 512-546
TagStart(p, pr, hasToken) ==
  IF pr # 0
    THEN LET p1 == IF Includes(p.description)
                     THEN [p EXCEPT !.triggerSource = "description",
                                    !.userRequest =
                                       RequestOr(AfterTrigger(p.description),
                                                 DefaultReview)]
                     ELSE p
         IN  IF hasToken THEN [p1 EXCEPT !.pc = "comments"]
             ELSE TagAfterComments(p1, hasToken)
    ELSE TagFinish([p EXCEPT !.prompt.kind = IF p.commit THEN "commit" ELSE "general",
                             !.triggerSource = IF p.commit THEN "commit" ELSE @])

\* part_010:314-347
ReviewFinish(p) ==
  IF p.pinned THEN PrepareReturns([p EXCEPT !.allowedTools = PinnedTools,
                                            !.blockedTools = ConfigBlocked(p)])
  ELSE PrepareReturns([p EXCEPT !.allowedTools = ReviewAllowed(p.type),
                                !.blockedTools = ReviewBlocked(p.type)])

\* part_010:198-229
ReviewScan(p, comments) ==
  LET i == LastMention(comments) IN
  IF i = 0 THEN p
  ELSE [p EXCEPT !.inline = IF comments[i].inline = NoInline THEN NoInline
                                ELSE InlineContext(comments[i].inline),
                 !.parent = i,
                 !.userRequest = AfterTrigger(comments[i].words)]

\* part_010:235-312: classification, the prompt, and the fetch of the branch
\* information when there is a token
ReviewAfterComments(p, hasToken) ==
  LET ask == p.userRequest # <<>> /\ p.auto
      t == IF ask THEN classifyRequest([words |-> p.userRequest, pad |-> 0])
           ELSE "informational"
      p1 == [p EXCEPT !.type = t, !.prompt.kind = "review",
                      !.prompt.request = p.userRequest,
                      !.called = IF ask THEN @ \cup {"classifyRequest"} ELSE @]
  IN  IF hasToken THEN [p1 EXCEPT !.pc = "branch"] ELSE ReviewFinish(p1)

\* part_010:182-192
ReviewStart(p, pr, hasToken) ==
  IF pr = 0 THEN [p EXCEPT !.pc = "thrown"]
  ELSE IF hasToken THEN [p EXCEPT !.pc = "comments"]
  ELSE ReviewAfterComments(p, hasToken)

\* config.ts:130-172 (AgentMode.prepareContext)
AgentStart(p) ==
  PrepareReturns([p EXCEPT !.prompt.kind = "agent",
                           !.allowedTools = IF p.pinned THEN PinnedTools
                                            ELSE AgentAllowed,
                           !.blockedTools = IF p.pinnedBlocked THEN PinnedBlocked
                                            ELSE AgentBlocked])

\* prepare() up to the first fetch it awaits
PrepareEnter ==
  /\ mpc = "prepare" /\ prep.pc = "start"
  /\ LET mode == getModeHandler(prep.mode)
         p0 == [prep EXCEPT !.eventType = DetectEventType(prep.trigger, env.prId)]
         p1 == [p0 EXCEPT !.called = @ \cup {"prepareContext"}]
     IN  prep' = IF mode = "none" THEN [p0 EXCEPT !.pc = "thrown"]
                 ELSE IF ~ShouldTrigger(mode, prep.mode, p0.eventType)
                   THEN [p0 EXCEPT !.pc = "returned"]
                 ELSE IF mode = "tag" THEN TagStart(p1, env.prId, env.token)
                 ELSE IF mode = "agent" THEN AgentStart(p1)
                 ELSE ReviewStart(p1, env.prId, env.token)
  /\ UNCHANGED <<inputVars, childEnv, mpc, runVars, streamVars, now, calls, runs>>

\* getPullRequestComments settles
CommentsFetched ==
  /\ mpc = "prepare" /\ prep.pc = "comments"
  /\ \E ok \in BOOLEAN :
       LET comments == IF ok THEN prep.remote ELSE <<>>
           p == IF ok THEN prep ELSE Failed(prep, "comments")
       IN  prep' = IF ~ok /\ FetchPropagates("comments")
                     THEN [p EXCEPT !.pc = "thrown"]
                   ELSE IF prep.mode = "tag"
                     THEN TagAfterComments(TagScan(p, comments), env.token)
                   ELSE ReviewAfterComments(ReviewScan(p, comments), env.token)
  /\ UNCHANGED <<inputVars, childEnv, mpc, runVars, streamVars, now, calls, runs>>

\* getPullRequestDiff settles: with the diff, with an empty value after the
\* client has caught the failure, or with an exception caught in
\* prepareContext, which skips the fetch of the branch information
DiffFetched ==
  /\ mpc = "prepare" /\ prep.pc = "diff"
  /\ \E how \in {"ok", "empty", "caught"} :
       LET p == IF how = "ok" THEN [prep EXCEPT !.prompt.diff = TRUE]
                ELSE Failed(prep, "diff")
       IN  prep' = IF how # "ok" /\ FetchPropagates("diff")
                     THEN [p EXCEPT !.pc = "thrown"]
                   ELSE IF how = "caught" THEN TagFinish(p)
                   ELSE [p EXCEPT !.pc = "branch"]
  /\ UNCHANGED <<inputVars, childEnv, mpc, runVars, streamVars, now, calls, runs>>

\* getPullRequestBranch settles
BranchFetched ==
  /\ mpc = "prepare" /\ prep.pc = "branch"
  /\ \E ok \in BOOLEAN :
       LET p == IF ok THEN [prep EXCEPT !.prompt.branch = TRUE]
                ELSE Failed(prep, "branch")
       IN  prep' = IF ~ok /\ FetchPropagates("branch")
                     THEN [p EXCEPT !.pc = "thrown"]
                   ELSE IF prep.mode = "tag" THEN TagFinish(p)
                   ELSE ReviewFinish(p)
  /\ UNCHANGED <<inputVars, childEnv, mpc, runVars, streamVars, now, calls, runs>>

\* main after prepare has settled: the catch block, the early return, or the
\* call of runClaudeCode with the tool lists of the prepare result
MainInvoke ==
  /\ mpc = "prepare" /\ prep.pc \in {"returned", "thrown"}
  /\ IF prep.pc = "thrown" THEN Fatal
     ELSE /\ mpc' = IF MainRuns(prep.shouldRun) THEN "run" ELSE "done"
          /\ prep' = IF MainRuns(prep.shouldRun)
                       THEN [prep EXCEPT !.pc = "invoked",
                                         !.args = BuildClaudeArgs(
                                            IF prep.allowedTools # {}
                                              THEN prep.allowedTools
                                              ELSE ConfigAllowed(prep),
                                            IF prep.blockedTools # {}
                                              THEN prep.blockedTools
                                              ELSE ConfigBlocked(prep))]
                       ELSE prep
          /\ UNCHANGED <<inputVars, childEnv, runVars, streamVars, now, calls, runs>>

MainCollect ==
  /\ mpc = "start"
  /\ \E cli \in BOOLEAN :
       IF cli /\ CollectOK(env)
         THEN /\ mpc' = "prepare"
              /\ UNCHANGED <<inputVars, prep, childEnv, runVars, streamVars, now, calls, runs>>
         ELSE Fatal

MainPrepare ==
  /\ mpc = "prepare"
  /\ \E r \in {"run", "skip", "throw"} :
       IF r = "throw" THEN Fatal
       ELSE /\ mpc' = IF r = "run" THEN "run" ELSE "done"
            /\ UNCHANGED <<inputVars, prep, childEnv, runVars, streamVars, now, calls, runs>>

\* main: `if (!config.bitbucketAccessToken || !config.prId)` then updateComment,
\* which without token or pull request writes the banner to the console
MainPrints == ~env.token \/ env.prId = 0

\* main after the runner has returned: the summary and the output file
\* claude_output.json; writing it can throw
MainOutput ==
  /\ mpc = "output"
  /\ \E w \in BOOLEAN :
       IF w THEN /\ mpc' = "done"
                 /\ UNCHANGED <<inputVars, prep, childEnv, runVars, streamVars, now, calls, runs>>
            ELSE Fatal

\* ------------------------------------------------------- runClaudeCode
AuthMethods == {"apiKey", "aws", "gcp"}

\* runner.ts:1108-1112: the copy of process.env, as far as the variables of
\* the authentication methods go (collectInputs reads the config fields
\* from the same variables)
InheritedAuth(e) == {m \in AuthMethods : e[m]}

\* runner.ts:1115-1129: the method the if/else-if chain sets variables for
ChosenAuth(e) ==
  IF e.apiKey THEN {"apiKey"}
  ELSE IF e.aws THEN {"aws"}
  ELSE IF e.gcp THEN {"gcp"} ELSE {}

\* the methods whose variables are set in the environment of the subprocess
PrepareEnvironment(e) == InheritedAuth(e) \cup ChosenAuth(e)

\* variant: the directory is removed at the end of the try block only
RemoveTempOnReturn(d, path) ==
  IF d = "exists" /\ path = "return" THEN "removed" ELSE d

\* the finally block; path is "return" (the try block returned) or "catch"
RemoveTemp(d, path) == IF d = "exists" THEN "removed" ELSE d

\* variant: the handlers leave the timer as it is
ClearTimeoutKeepsTimer(tm) == tm

\* clearTimeout: a timer that has fired stays fired
ClearTimeout(tm) == IF tm = "armed" THEN "cleared" ELSE tm

\* runner.ts:1063
ShouldPostFinal(content) ==
  env.prId # 0 /\ env.token /\ content # <<>> /\ opts.strategy # "stream"

\* variant: the exit code alone decides the status
ExitStatusByCode(code, st) == IF code = 0 THEN "success" ELSE "error"

\* variant: stderr is not attached to the result
ExitErrorWithoutStderr(code, st, err, errOut) ==
  IF code = 0 \/ st = "timeout" THEN err
  ELSE IF err.kind # "none" THEN err ELSE ErrExit(code)

\* runner.ts:1023-1038: the status after the exit handler
ExitStatus(code, st) ==
  IF code = 0 THEN st ELSE IF st = "timeout" THEN st ELSE "error"

\* runner.ts:1018-1030: the error after the exit handler
ExitError(code, st, err, errOut) ==
  LET e1 == IF errOut # <<>> THEN ErrStderr(errOut) ELSE err IN
  IF code = 0 \/ st = "timeout" THEN e1
  ELSE IF e1.kind # "none" THEN e1 ELSE ErrExit(code)

\* runClaudeCode returns <<st, err>> (through the try block or the catch
\* block), the finally block runs, and main goes on to print the result
\* when it has no token or no pull request
ReturnResult(st, err, dir, path) ==
  /\ result' = [status |-> st, error |-> err]
  /\ tempDir' = RemoveTemp(dir, path)
  /\ rpc' = "returned"
  /\ mpc' = "output"
  /\ consoleOut' = IF MainPrints
                     THEN Append(consoleOut, [src |-> "main", status |-> st])
                     ELSE consoleOut

\* spawn, the timeout timer, the listeners
Spawn ==
  /\ rpc' = "wait"
  /\ proc' \in {"running", "spawnfail"}
  /\ childEnv' = PrepareEnvironment(env)
  /\ timer' = "armed"
  /\ UNCHANGED <<result, mpc, consoleOut>>

RunStart ==
  /\ mpc = "run" /\ rpc = "idle"
  /\ \E mk \in BOOLEAN, t \in ClockReads(StreamOn) :
       /\ now' = IF mk THEN t ELSE now
       /\ IF ~mk
         THEN /\ ReturnResult("error", ErrThrown("mkdtemp"), tempDir, "catch")
              /\ UNCHANGED <<proc, timer, mainPost, callVars, childEnv>>
         ELSE IF StreamOn
           THEN LET u == UpdateCall(TRUE, <<>>, "none", HasToken, opts.inline,
                                    t, CallState)
                IN  /\ CallEffect(u.c)
                    /\ tempDir' = "exists"
                    /\ IF u.kind = "remote"
                         THEN /\ rpc' = "initPost"
                              /\ mainPost' = u.comment
                              /\ UNCHANGED <<proc, timer, result, mpc, consoleOut,
                                             childEnv>>
                         ELSE Spawn /\ UNCHANGED mainPost
           ELSE /\ tempDir' = "exists"
                /\ Spawn
                /\ UNCHANGED <<mainPost, callVars>>
  /\ runs' = runs + 1
  /\ UNCHANGED <<inputVars, prep, status, error, currentContent, turns, buffer,
                 stderrOutput, exitCode, outPos, handlers, parsed,
                 prComments, calls>>

InitPostDone ==
  /\ rpc = "initPost"
  /\ \E ok \in BOOLEAN :
       /\ prComments' = IF ok THEN Append(prComments, mainPost) ELSE prComments
       /\ IF UpdateSettles(ok) = "resolved"
            THEN Spawn /\ UNCHANGED tempDir
            ELSE /\ ReturnResult("error", ErrThrown("update"), tempDir, "catch")
                 /\ UNCHANGED <<proc, timer, childEnv>>
  /\ UNCHANGED <<inputVars, prep, mainPost, status, error, currentContent, turns, buffer,
                 stderrOutput, exitCode, outPos, handlers, parsed, now,
                 callVars, calls, runs>>

\* a data event of stdout carrying the next k characters
StdoutData ==
  /\ proc \in {"running", "killfail", "exited"}
  /\ mpc # "exit1"
  /\ \E k \in 1..(Len(script) - outPos), t \in ClockReads(StreamOn) :
       LET chunk == SubSeq(script, outPos + 1, outPos + k)
           segs == SplitOn(buffer \o chunk, NL)
           r == ProcessLines(HandlerState(t), CompleteLines(segs))
       IN  /\ outPos' = outPos + k
           /\ buffer' = KeptBuffer(segs)
           /\ HandlerEffect(r, handlers)
  /\ UNCHANGED <<inputVars, prep, childEnv, mpc, rpc, tempDir, status, error, stderrOutput,
                 timer, proc, exitCode, mainPost, result, prComments,
                 consoleOut, calls, runs>>

\* the REST call awaited by suspended handler i returns
HandlerPostDone ==
  /\ mpc \notin {"exit1", "driver"}
  /\ \E i \in 1..Len(handlers), ok \in BOOLEAN, t \in ClockReads(TRUE) :
       LET h == handlers[i]
           others == SubSeq(handlers, 1, i - 1) \o SubSeq(handlers, i + 1, Len(handlers))
           r == IF UpdateSettles(ok) = "resolved"
                  THEN ProcessBlocks(HandlerState(t), h.blocks, h.lines)
                  ELSE ProcessLines(HandlerState(t), h.lines)
       IN  /\ prComments' = IF ok THEN Append(prComments, h.comment) ELSE prComments
           /\ HandlerEffect(r, others)
  /\ UNCHANGED <<inputVars, prep, childEnv, mpc, rpc, tempDir, status, error, buffer,
                 stderrOutput, timer, proc, exitCode, outPos, mainPost, result,
                 consoleOut, calls, runs>>

StderrData ==
  /\ rpc = "wait"
  /\ proc \in {"running", "killfail"}
  /\ Len(stderrOutput) < MaxStderr
  /\ stderrOutput' = Append(stderrOutput, "rate limit exceeded")
  /\ UNCHANGED <<inputVars, prep, childEnv, mpc, rpc, tempDir, status, error, currentContent,
                 turns, buffer, timer, proc, exitCode, outPos, handlers,
                 mainPost, result, parsed, streamVars, now, calls, runs>>

\* the timeout callback
TimerFire ==
  /\ timer = "armed"
  /\ timer' = "fired"
  /\ status' = "timeout"
  /\ error' = ErrTimeout
  /\ proc' \in IF proc = "running" THEN {"running", "killfail"} ELSE {proc}
  /\ UNCHANGED <<inputVars, prep, childEnv, mpc, rpc, tempDir, currentContent, turns, buffer,
                 stderrOutput, exitCode, outPos, handlers, mainPost, result,
                 parsed, streamVars, now, calls, runs>>

\* the exit event, and the body of runClaudeCode up to its next await
ProcExit ==
  /\ rpc = "wait"
  /\ proc \in {"running", "killfail"}
  /\ \E code \in ExitCodes, t \in ClockReads(ShouldPostFinal(currentContent)) :
       LET st1 == ExitStatus(code, status)
           err1 == ExitError(code, status, error, stderrOutput)
           u == UpdateCall(FALSE, currentContent, st1, HasToken, opts.inline,
                           t, CallState)
       IN  /\ exitCode' = code
           /\ now' = t
           /\ status' = st1
           /\ error' = err1
           /\ turns' = IF currentContent # <<>>
                         THEN Append(turns, TextTurn(currentContent)) ELSE turns
           /\ IF ShouldPostFinal(currentContent)
                THEN /\ CallEffect(u.c)
                     /\ IF u.kind = "remote"
                          THEN /\ rpc' = "finalPost"
                               /\ mainPost' = u.comment
                               /\ UNCHANGED <<result, tempDir, mpc, consoleOut>>
                          ELSE /\ ReturnResult(st1, err1, tempDir, "return")
                               /\ UNCHANGED mainPost
                ELSE /\ ReturnResult(st1, err1, tempDir, "return")
                     /\ UNCHANGED <<mainPost, callVars>>
  /\ timer' = ClearTimeout(timer)
  /\ proc' = "exited"
  /\ UNCHANGED <<inputVars, prep, childEnv, currentContent, buffer, stderrOutput, outPos,
                 handlers, parsed, prComments, calls, runs>>

\* the error event of the child process (failed spawn, failed kill)
ProcError ==
  /\ rpc = "wait"
  /\ proc \in {"spawnfail", "killfail"}
  /\ timer' = ClearTimeout(timer)
  /\ status' = "error"
  /\ error' = ErrThrown("spawn")
  /\ ReturnResult("error", ErrThrown("spawn"), tempDir, "catch")
  /\ UNCHANGED <<inputVars, prep, childEnv, currentContent, turns, buffer, stderrOutput, proc,
                 exitCode, outPos, handlers, mainPost, parsed, callVars,
                 prComments, now, calls, runs>>

FinalPostDone ==
  /\ rpc = "finalPost"
  /\ \E ok \in BOOLEAN :
       /\ prComments' = IF ok THEN Append(prComments, mainPost) ELSE prComments
       /\ IF UpdateSettles(ok) = "resolved"
            THEN ReturnResult(status, error, tempDir, "return")
            ELSE ReturnResult("error", ErrThrown("update"), tempDir, "catch")
  /\ UNCHANGED <<inputVars, prep, childEnv, mainPost, status, error, currentContent, turns, buffer,
                 stderrOutput, timer, proc, exitCode, outPos, handlers, parsed,
                 callVars, now, calls, runs>>

\* ------------------------------------- call sequences of updateCommentStream
\* a further invocation of runClaudeCode in the same process begins; the
\* module comment-stream.ts is loaded once and nothing in runClaudeCode
\* writes its variable lastUpdateTime
DriverInvoke ==
  /\ mpc = "driver"
  /\ runs < MaxRuns
  /\ runs' = runs + 1
  /\ UNCHANGED <<inputVars, prep, childEnv, mainVars, runVars, streamVars, now, calls>>

DriverCall ==
  /\ mpc = "driver"
  /\ runs > 0
  /\ calls < MaxCalls
  /\ \E isPartial \in BOOLEAN, st \in {"success", "error", "timeout"},
        content \in {<<>>, <<"a">>}, t \in ClockReads(TRUE) :
       LET u == UpdateCall(isPartial, content, st, HasToken, opts.inline, t,
                           CallState)
       IN  /\ (isPartial => st = "success")
           /\ now' = t
           /\ CallEffect(u.c)
           /\ handlers' = IF u.kind = "remote"
                            THEN Append(handlers, [NoCont EXCEPT !.comment = u.comment])
                            ELSE handlers
           /\ consoleOut' = IF u.kind = "console"
                              THEN Append(consoleOut, [src |-> "stream", status |-> st])
                              ELSE consoleOut
  /\ calls' = calls + 1
  /\ UNCHANGED <<inputVars, prep, childEnv, mpc, rpc, tempDir, status, error, currentContent,
                 turns, buffer, stderrOutput, timer, proc, exitCode, outPos,
                 mainPost, result, parsed, prComments, runs>>

DriverPostDone ==
  /\ mpc = "driver"
  /\ \E i \in 1..Len(handlers), ok \in BOOLEAN :
       /\ prComments' = IF ok THEN Append(prComments, handlers[i].comment)
                        ELSE prComments
       /\ handlers' = SubSeq(handlers, 1, i - 1) \o SubSeq(handlers, i + 1, Len(handlers))
  /\ UNCHANGED <<inputVars, prep, childEnv, mpc, rpc, tempDir, status, error, currentContent,
                 turns, buffer, stderrOutput, timer, proc, exitCode, outPos,
                 mainPost, result, parsed, now, callVars, consoleOut, calls, runs>>

\* ------------------------------------------------------------ specifications
LineMenu == { <<"{", "a", "}">>, <<"{", "b", "X", "c", "}">>, <<"{", "R", "r", "}">>,
              <<"z">> }

RECURSIVE LineSeqs(_)
LineSeqs(n) ==
  IF n = 0 THEN {<<>>}
  ELSE LET shorter == LineSeqs(n - 1)
       IN  shorter \cup {Append(s, l) : s \in {t \in shorter : Len(t) = n - 1},
                                        l \in LineMenu}

\* what a subprocess can write: up to n lines, the last one possibly not
\* terminated by a newline
Scripts(n) ==
  LET full == {JoinLines(ls) : ls \in LineSeqs(n)}
  IN  full \cup {Front(s) : s \in full \ {<<>>}}

ValidEnv(tok, pr) ==
  [apiKey |-> TRUE, aws |-> FALSE, gcp |-> FALSE, workspace |-> TRUE,
   repoSlug |-> TRUE, schemaOk |-> TRUE, token |-> tok, prId |-> pr]

ParentIds == {0, 5}
AllOpts == [streaming : BOOLEAN, strategy : {"stream", "both"}, inline : BOOLEAN,
            parent : ParentIds]
PlainOpts == [streaming |-> FALSE, strategy |-> "both", inline |-> FALSE,
              parent |-> 0]

InitRest ==
  /\ rpc = "idle"
  /\ tempDir = "null"
  /\ status = "success"
  /\ error = ErrNone
  /\ currentContent = <<>>
  /\ turns = <<>>
  /\ buffer = <<>>
  /\ stderrOutput = <<>>
  /\ timer = "unset"
  /\ proc = "none"
  /\ exitCode = NullCode
  /\ outPos = 0
  /\ handlers = <<>>
  /\ mainPost = NoComment
  /\ result = NoResult
  /\ lastUpdateTime = 0
  /\ now = StartTime
  /\ prComments = <<>>
  /\ consoleOut = <<>>
  /\ lastCall = NoCall
  /\ partialAt = 0
  /\ parsed = <<>>
  /\ calls = 0
  /\ runs = 0
  /\ childEnv = {}

\* one invocation of the pipe with a valid configuration
Init ==
  /\ \E tok \in BOOLEAN, pr \in PrIds : env = ValidEnv(tok, pr)
  /\ opts \in IF HasPR THEN {o \in AllOpts : ~o.inline /\ o.parent = 0}
                       ELSE {PlainOpts}
  /\ script \in Scripts(MaxLines)
  /\ mpc = "start"
  /\ InitRest
  /\ prep = NoPrep

Next ==
  \/ MainCollect
  \/ MainPrepare
  \/ RunStart
  \/ InitPostDone
  \/ StdoutData
  \/ HandlerPostDone
  \/ StderrData
  \/ TimerFire
  \/ ProcExit
  \/ ProcError
  \/ FinalPostDone
  \/ MainOutput

Spec == Init /\ [][Next]_vars

\* every environment collectInputs can meet, one fixed subprocess
InitConfig ==
  /\ env \in [apiKey : BOOLEAN, aws : BOOLEAN, gcp : BOOLEAN, workspace : BOOLEAN,
              repoSlug : BOOLEAN, schemaOk : BOOLEAN, token : BOOLEAN, prId : PrIds]
  /\ opts = [streaming |-> TRUE, strategy |-> "both", inline |-> FALSE,
             parent |-> 0]
  /\ script = <<"{", "a", "}", NL>>
  /\ mpc = "start"
  /\ InitRest
  /\ prep = NoPrep

SpecConfig == InitConfig /\ [][Next]_vars

\* arbitrary sequences of calls of updateCommentStream in one process
InitStream ==
  /\ \E tok \in BOOLEAN : env = ValidEnv(tok, 7)
  /\ opts \in {o \in AllOpts : o.streaming /\ o.strategy = "both"}
  /\ script = <<>>
  /\ mpc = "driver"
  /\ InitRest
  /\ prep = NoPrep

NextStream == DriverInvoke \/ DriverCall \/ DriverPostDone

SpecStream == InitStream /\ [][NextStream]_vars

\* classifyRequest on every text of up to MaxWords words of Vocabulary, bare
\* or with PadBlanks blanks around it
PadBlanks == 2 * Len("what")

RECURSIVE WordSeqs(_)
WordSeqs(n) ==
  IF n = 0 THEN {<<>>}
  ELSE LET shorter == WordSeqs(n - 1)
       IN  shorter \cup {Append(s, w) : s \in {t \in shorter : Len(t) = n - 1},
                                        w \in Vocabulary}

Texts == [words : WordSeqs(MaxWords), pad : {0, PadBlanks}]

InitClassify ==
  /\ env = ValidEnv(TRUE, 7)
  /\ opts = PlainOpts
  /\ script = <<>>
  /\ mpc = "classifier"
  /\ InitRest
  /\ \E t \in Texts : prep = [pc |-> "classify", text |-> t, type |-> "none"]

NextClassify == Classify

SpecClassify == InitClassify /\ [][NextClassify]_vars

\* the runner without access token and pull request (no comment update is
\* awaited), fed every kind of line: assistant events, result and
\* completion events, events of other shapes, and a line that is not JSON
EventMenu == { <<"{", "a", "}">>, <<"{", "X", "b", "}">>, <<"{", "R", "r", "}">>,
               <<"{", "C", "c", "}">>, <<"{", "S", "}">>, <<"{", "}">>, <<"z">> }

RECURSIVE EventSeqs(_)
EventSeqs(n) ==
  IF n = 0 THEN {<<>>}
  ELSE LET shorter == EventSeqs(n - 1)
       IN  shorter \cup {Append(s, l) : s \in {t \in shorter : Len(t) = n - 1},
                                        l \in EventMenu}

InitEvents ==
  /\ env = ValidEnv(FALSE, 0)
  /\ opts = PlainOpts
  /\ \E ls \in EventSeqs(MaxLines) : script = JoinLines(ls)
  /\ mpc = "start"
  /\ InitRest
  /\ prep = NoPrep

\* the actions of Next that are enabled without an awaited comment update
NextEvents ==
  \/ MainCollect
  \/ MainPrepare
  \/ RunStart
  \/ StdoutData
  \/ StderrData
  \/ TimerFire
  \/ ProcExit
  \/ ProcError
  \/ MainOutput

SpecEvents == InitEvents /\ [][NextEvents]_vars

\* the runner under the scheduling of the event loop: a timer that stays
\* armed fires, an event the child process has pending (exit, error) is
\* delivered, and every step of main that can be taken is taken; a child
\* that runs is taken to exit, by itself or on SIGTERM
LiveFairness ==
  /\ WF_vars(MainCollect)
  /\ WF_vars(MainPrepare)
  /\ WF_vars(RunStart)
  /\ WF_vars(TimerFire)
  /\ WF_vars(ProcExit)
  /\ WF_vars(ProcError)
  /\ WF_vars(MainOutput)

SpecLive == InitEvents /\ [][NextEvents]_vars /\ LiveFairness

\* prepare() for every mode, with and without token and pull request, over
\* the lists of up to MaxComments fetched comments
CommentMenu ==
  { [words |-> <<TriggerPhrase, "please", "fix", "it">>, inline |-> NoInline],
    [words |-> <<TriggerPhrase, "explain", "it", "please">>,
     inline |-> [path |-> "src/a.ts", from |-> 3, to |-> 5]],
    [words |-> <<"it", "fix">>, inline |-> NoInline],
    [words |-> <<TriggerPhrase>>,
     inline |-> [path |-> "src/a.ts", from |-> 3, to |-> 0]] }

Descriptions == {<<>>, <<"it", TriggerPhrase, "what", "it", "it">>}

RECURSIVE CommentLists(_)
CommentLists(n) ==
  IF n = 0 THEN {<<>>}
  ELSE LET shorter == CommentLists(n - 1)
       IN  shorter \cup {Append(s, c) : s \in {t \in shorter : Len(t) = n - 1},
                                        c \in CommentMenu}

\* the mode names prepare() is called with: those of the schema and, for
\* a caller other than main, one that getModeHandler does not know
ModeNames == Modes \cup {"review"}

\* inputs a mode never reads keep one value
InitPrepare ==
  /\ \E tok \in BOOLEAN, pr \in PrIds : env = ValidEnv(tok, pr)
  /\ opts = PlainOpts
  /\ script = <<>>
  /\ mpc = "prepare"
  /\ InitRest
  /\ \E mode \in ModeNames, trigger \in Triggers, commit \in BOOLEAN,
        auto \in BOOLEAN, pinned \in BOOLEAN, pinnedBlocked \in BOOLEAN,
        description \in Descriptions, remote \in CommentLists(MaxComments) :
       /\ (trigger # "none") => mode = "experimental-review"
       /\ (mode \notin Modes) => (~pinned /\ ~pinnedBlocked /\ ~env.token)
       /\ commit => (mode = "tag" /\ env.prId = 0)
       /\ (description # <<>>) => (mode \in {"tag", "agent"} /\ env.prId # 0)
       /\ (remote # <<>>) => (mode # "agent" /\ env.prId # 0 /\ env.token)
       /\ prep = PrepInputs(mode, trigger, commit, auto, pinned, pinnedBlocked,
                            description, remote)

NextPrepare ==
  \/ PrepareEnter
  \/ CommentsFetched
  \/ DiffFetched
  \/ BranchFetched
  \/ MainInvoke

SpecPrepare == InitPrepare /\ [][NextPrepare]_vars

\* ------------------------------------------------------------ properties
Range(f) == {f[i] : i \in DOMAIN f}
ScriptLines == CompleteLines(SplitOn(script, NL))
Quiescent == outPos = Len(script) /\ handlers = <<>>
Returned == rpc = "returned"
ExitHandled == proc = "exited"
ToolTurns(ts) == SelectSeq(ts, LAMBDA x : x.kind = "tool")
FinalComments == {i \in DOMAIN prComments : prComments[i].kind = "final"}

\* the script is one newline-terminated JSON event
SingleEvent ==
  /\ Len(SplitOn(script, NL)) = 2
  /\ Last(script) = NL
  /\ ParseJSON(ScriptLines[1]).ok

\* the whole script fed to a fresh parser as one chunk, no update awaited
OneChunk ==
  ProcessLines([content |-> <<>>, turns |-> <<>>,
                c |-> [last |-> 0, call |-> NoCall, pat |-> 0],
                parsed |-> <<>>, t |-> StartTime, stream |-> FALSE],
               ScriptLines).st

\* the text blocks of a list of lines, in the order of the lines
RECURSIVE TextBlocksInOrder(_)
TextBlocksInOrder(lines) ==
  IF lines = <<>> THEN <<>>
  ELSE LET ev == ParseJSON(Head(lines))
           texts == IF ev.ok /\ ev.type = "assistant"
                      THEN SelectSeq(ev.blocks, LAMBDA b : b.type = "text")
                      ELSE <<>>
       IN  [i \in 1..Len(texts) |-> texts[i].val] \o TextBlocksInOrder(Tail(lines))

NoTerminalEvents ==
  \A i \in 1..Len(ScriptLines) :
     ParseJSON(ScriptLines[i]).type \notin {"result", "completion"}

\* C1: when the timeout timer has fired before the exit event is handled,
\* the returned status is "timeout" for every exit code (0, non-zero, null),
\* and so is the status of the final update.
C1_TimeoutWins ==
  (timer = "fired" /\ ExitHandled) =>
     /\ status = "timeout"
     /\ (Returned => result.status = "timeout")
     /\ (rpc = "finalPost" => mainPost.footer = "timeout")

C1_Witness ==
  /\ timer = "fired" /\ ExitHandled /\ Returned
  /\ exitCode = 0
  /\ result.status = "timeout"

\* C2: when the timeout has not fired, exit code 0 gives status "success";
\* a non-zero code gives status "error", and the error is the captured
\* stderr text when stderr is not empty.
C2_ExitClassification ==
  (timer # "fired" /\ ExitHandled /\ Returned) =>
     /\ (exitCode = 0 => result.status = "success")
     /\ (exitCode # 0 =>
           /\ result.status = "error"
           /\ (stderrOutput # <<>> => result.error = ErrStderr(stderrOutput)))

C2_Witness ==
  /\ timer # "fired" /\ ExitHandled /\ Returned
  /\ exitCode = 1
  /\ stderrOutput = <<"rate limit exceeded">>
  /\ result = [status |-> "error", error |-> ErrStderr(<<"rate limit exceeded">>)]

\* C3: every terminal outcome of the subprocess (unless the strategy is
\* stream-only) produces exactly one final output with a status banner: one
\* final comment sent to the pull request, or one console output.
FinalUpdatesSent == IF mainPost.kind = "final" THEN 1 ELSE 0

C3_OneFinalOutput ==
  (mpc = "done" /\ Returned /\ ExitHandled /\ opts.strategy # "stream") =>
     FinalUpdatesSent + Len(consoleOut) = 1

\* C4: once every chunk is delivered and every awaited update has returned,
\* the accumulated text is the concatenation of the text blocks in the order
\* in which their lines arrived on stdout.
C4_TextInArrivalOrder ==
  (Quiescent /\ NoTerminalEvents) =>
     currentContent = TextBlocksInOrder(ScriptLines)

C6_ThrottleWindow ==
  (lastCall.partial /\ lastCall.outcome \notin {"none", "suppressed"}) =>
     lastCall.since >= UPDATE_THROTTLE_MS

C6_Witness ==
  /\ lastCall.partial
  /\ lastCall.outcome = "remote"
  /\ lastCall.since = UPDATE_THROTTLE_MS

\* C7: a final (non-partial) update is never suppressed, whatever the
\* last-update time: it reaches the posting step and sets the last-update time.
C7_FinalBypassesThrottle ==
  (~lastCall.partial /\ lastCall.outcome # "none") =>
     /\ lastCall.outcome \in {"remote", "caught", "console"}
     /\ lastUpdateTime = lastCall.at

C7_Witness ==
  /\ ~lastCall.partial
  /\ lastCall.outcome = "remote"
  /\ lastCall.gap = 0
  /\ partialAt = lastCall.at

StatusByExit ==
  IF timer = "fired" THEN "timeout"
  ELSE IF exitCode = 0 THEN "success" ELSE "error"

C9_WriteFailureHarmless ==
  /\ result.error.kind # "update"
  /\ (ExitHandled /\ Returned) => result.status = StatusByExit
  /\ (SingleEvent /\ Quiescent) =>
        /\ currentContent = OneChunk.content
        /\ ToolTurns(turns) = OneChunk.turns

\* the final update was issued, its REST call failed, the run is a success
C9_Witness ==
  /\ Returned /\ ExitHandled
  /\ ~lastCall.partial /\ lastCall.outcome = "remote"
  /\ FinalComments = {}
  /\ result.status = "success"

\* C10 as stated: a configuration is accepted only with exactly one
\* authentication method and both repository coordinates.
ExactlyOneAuth(e) ==
  Cardinality({m \in {"apiKey", "aws", "gcp"} : e[m]}) = 1
Accepted == mpc \in {"prepare", "run", "output", "done"} \/ rpc # "idle" \/ proc # "none"

C10_ExactlyOneAuth ==
  Accepted => (ExactlyOneAuth(env) /\ env.workspace /\ env.repoSlug)

\* C10, amended: a configuration is accepted only with at least one
\* authentication method and both repository coordinates; every other one
\* ends main with exit code 1 and no subprocess spawned.
ConfigValid ==
  /\ Cardinality({m \in {"apiKey", "aws", "gcp"} : env[m]}) >= 1
  /\ env.workspace /\ env.repoSlug

C10_AtLeastOneAuth ==
  /\ Accepted => ConfigValid
  /\ (~ConfigValid /\ mpc # "start") =>
        (mpc = "exit1" /\ rpc = "idle" /\ proc = "none")

C10_Witness ==
  /\ ~env.apiKey /\ ~env.aws /\ ~env.gcp
  /\ env.workspace /\ env.repoSlug /\ env.schemaOk
  /\ mpc = "exit1"

\* C16: an exception that escapes prepare or the writing of the output in
\* main ends in main's catch block, and the process exits with code 1
\* whether or not the error comment could be posted and whether or not the
\* second collectInputs succeeds; nothing runs after the exit.
C16_FatalExitsNonZero ==
  [][/\ mpc # "exit1"
     /\ (mpc \in {"start", "prepare", "output"} /\ mpc' \notin {mpc, "prepare", "run", "done"})
          => /\ mpc' = "exit1"
             /\ prComments' \in {prComments, Append(prComments, FatalComment)}
             /\ UNCHANGED <<runVars, consoleOut>>]_vars

\* the output file could not be written, the error comment failed, exit 1
C16_Witness ==
  /\ mpc = "exit1"
  /\ Returned /\ HasPR
  /\ \A i \in DOMAIN prComments : prComments[i].kind # "fatal"

\* C17: an accepted update with an inline anchor is posted as an inline
\* reply under the parent comment id; one without an anchor is posted as a
\* top-level comment, under the parent comment id when one is supplied.
C17_RoutedByAnchor ==
  (lastCall.outcome \in {"remote", "caught"}) =>
     /\ lastCall.route.defined
     /\ lastCall.route.parent = opts.parent
     /\ lastCall.route.api = IF opts.inline THEN "createInlineComment"
                             ELSE "createPullRequestComment"

\* C18: the environment of the subprocess holds the variables of exactly one
\* authentication method, the first configured one in the order API key,
\* AWS, GCP.
C18_OneAuthMethodInEnv ==
  (proc # "none") => (Cardinality(childEnv) = 1 /\ childEnv = ChosenAuth(env))

\* C19: when runClaudeCode returns status "timeout", the timer has fired
\* (SIGTERM was sent) and the error of the result is the timeout message,
\* whatever was written to stderr.
C19_TimeoutMessage ==
  (Returned /\ result.status = "timeout") =>
     (timer = "fired" /\ result.error = ErrTimeout)

\* C20: once the exit event is handled, the final turn and the final update
\* contain every text block the subprocess wrote to stdout, for every order
\* of chunk deliveries, exit event and completions of awaited updates; with
\* the stream-only strategy no final update is pushed.
TextBlocksWritten == Range(TextBlocksInOrder(ScriptLines))

C20_CompleteTextAtExit ==
  (ExitHandled /\ NoTerminalEvents) =>
     /\ (TextBlocksWritten # {}) =>
           \E i \in DOMAIN turns :
              turns[i].kind = "text" /\ TextBlocksWritten \subseteq Range(turns[i].val)
     /\ (mainPost.kind = "final") => TextBlocksWritten \subseteq Range(mainPost.body)
     /\ (opts.strategy = "stream") => mainPost.kind # "final"

\* the text classified, its length as the caller passed it, and whether an
\* actionable or an informational pattern matches it
Classified == prep.pc = "classified"
RawLength == TextLength(prep.text.words) + prep.text.pad
MatchesActionable == SomePattern(ACTIONABLE_PATTERNS(prep.text.words))
MatchesInformational == SomePattern(INFORMATIONAL_PATTERNS(prep.text.words))

\* C11 as stated: every text that matches at least one actionable pattern is
\* classified "actionable", whether or not informational patterns match too.
C11_ActionablePrecedence ==
  (Classified /\ MatchesActionable) => prep.type = "actionable"

\* C11, amended: every text of at least 10 characters (blanks around it not
\* counted) that matches at least one actionable pattern is classified
\* "actionable", whether or not informational patterns match too.
C11_ActionablePrecedenceLong ==
  (Classified /\ MatchesActionable /\ TextLength(prep.text.words) >= 10) =>
     prep.type = "actionable"

\* "explain fix it": an informational and an actionable pattern match
C11_Witness ==
  /\ Classified
  /\ prep.text.words = <<"explain", "fix", "it">>
  /\ MatchesInformational /\ MatchesActionable
  /\ prep.type = "actionable"

\* C12: every text shorter than 10 characters is classified
\* "informational", whatever patterns it matches.
C12_ShortIsInformational ==
  (Classified /\ RawLength < 10) => prep.type = "informational"

\* "fix it": 6 characters, two actionable patterns match
C12_Witness ==
  /\ Classified
  /\ prep.text = [words |-> <<"fix", "it">>, pad |-> 0]
  /\ MatchesActionable
  /\ prep.type = "informational"

\* the fetched comments that contain the trigger phrase, and whether Tag
\* mode has fetched and scanned the list
MentionIds == {i \in DOMAIN prep.remote : Includes(prep.remote[i].words)}
TagScanned ==
  /\ prep.mode = "tag"
  /\ prep.pc \in {"diff", "branch", "returned", "invoked"}
  /\ env.token /\ env.prId # 0
  /\ "comments" \notin prep.failed

\* C13: in Tag mode, when several fetched comments contain the trigger
\* phrase, the user request is the text after the phrase in the last of them
\* in the fetched list, never that of an earlier one.
C13_LastMentionWins ==
  (TagScanned /\ MentionIds # {}) =>
     /\ prep.commentId \in MentionIds
     /\ \A j \in MentionIds : j <= prep.commentId
     /\ prep.userRequest =
          RequestOr(AfterTrigger(prep.remote[prep.commentId].words), DefaultHelp)
     /\ prep.prompt.request = prep.userRequest

\* three comments with the phrase; the request is that of the third
C13_Witness ==
  /\ TagScanned
  /\ Len(prep.remote) = 3 /\ MentionIds = {1, 2, 3}
  /\ prep.remote[1].words = <<TriggerPhrase, "please", "fix", "it">>
  /\ prep.commentId = 3
  /\ prep.userRequest = <<"explain", "it", "please">>

\* C14: in Tag mode without pinned tools and with auto-detection on, a
\* request found after the trigger phrase and classified actionable puts
\* Edit among the allowed and Computer among the disallowed tools of the
\* command line; one classified informational puts none of Write, Edit,
\* MultiEdit, Bash among the allowed tools.
C14_ToolsByRequestType ==
  (/\ prep.pc = "invoked" /\ prep.mode = "tag"
   /\ ~prep.pinned /\ prep.auto
   /\ prep.triggerSource \in {"comment", "description"}) =>
     /\ prep.type = classifyRequest([words |-> prep.userRequest, pad |-> 0])
     /\ (prep.type = "actionable") =>
           /\ "Edit" \in prep.args.allowedTools
           /\ "Computer" \in prep.args.disallowedTools
     /\ (prep.type = "informational") =>
           /\ prep.args.allowedTools # {}
           /\ prep.args.allowedTools \cap {"Write", "Edit", "MultiEdit", "Bash"} = {}

\* "@claude please fix it" in a comment
C14_Witness ==
  /\ prep.pc = "invoked" /\ prep.mode = "tag" /\ mpc = "run"
  /\ ~prep.pinned /\ prep.auto
  /\ prep.userRequest = <<"please", "fix", "it">>
  /\ prep.type = "actionable"
  /\ "Edit" \in prep.args.allowedTools

\* C15: in Tag and Review mode, whichever of the fetches of comments, diff
\* and branch information fail, prepare does not throw: it returns
\* shouldRun = TRUE with a prompt built from what is at hand, and main
\* goes on to call the runner.
C15_FetchFailuresDegrade ==
  (prep.mode \in {"tag", "experimental-review"} /\ prep.failed # {}) =>
     /\ prep.pc # "thrown"
     /\ mpc \in {"prepare", "run"}
     /\ (prep.pc \in {"returned", "invoked"}) =>
           /\ prep.shouldRun
           /\ prep.prompt.kind \in {"pr", "review"}
           /\ prep.prompt.request = prep.userRequest
     /\ ("comments" \in prep.failed) => (prep.commentId = 0 /\ prep.parent = 0)
     /\ ("diff" \in prep.failed) => ~prep.prompt.diff
     /\ ("branch" \in prep.failed) => ~prep.prompt.branch
     /\ (prep.pc = "invoked") => mpc = "run"

\* all three fetches of Tag mode failed and the runner is called
C15_Witness ==
  /\ prep.mode = "tag"
  /\ prep.failed = {"comments", "diff", "branch"}
  /\ prep.pc = "invoked" /\ mpc = "run"
  /\ prep.prompt.kind = "pr"

\* Agent mode has returned from prepareContext
AgentPrepared == prep.mode = "agent" /\ prep.pc \in {"returned", "invoked"}

\* C21 as stated: Agent mode's tool selection is always allowed Read, Write,
\* Edit and blocked Bash, Computer, for every configuration and every
\* request text, and Agent mode never calls the classifier.
C21_AgentFixedTools ==
  AgentPrepared =>
     /\ prep.allowedTools = {"Read", "Write", "Edit"}
     /\ prep.blockedTools = {"Bash", "Computer"}
     /\ "classifyRequest" \notin prep.called

\* C21, amended: Agent mode never calls the classifier; its allowed tools
\* are Read, Write, Edit unless the configuration pins allowedTools, its
\* blocked tools are Bash, Computer unless the configuration pins
\* blockedTools, and a pinned list replaces the default, whatever the
\* request text and the auto-detection flag; the lists reach the command
\* line unchanged.
C21_AgentFixedToolsUnlessPinned ==
  AgentPrepared =>
     /\ "classifyRequest" \notin prep.called
     /\ prep.type = "none"
     /\ prep.allowedTools = IF prep.pinned THEN PinnedTools
                            ELSE {"Read", "Write", "Edit"}
     /\ prep.blockedTools = IF prep.pinnedBlocked THEN PinnedBlocked
                            ELSE {"Bash", "Computer"}
     /\ (prep.pc = "invoked") =>
           prep.args = [allowedTools |-> prep.allowedTools,
                        disallowedTools |-> prep.blockedTools]

\* auto-detection on, a description with an actionable request, no pins
C21_Witness ==
  /\ prep.mode = "agent" /\ prep.pc = "invoked" /\ mpc = "run"
  /\ prep.auto /\ Includes(prep.description)
  /\ ~prep.pinned /\ ~prep.pinnedBlocked
  /\ prep.args.allowedTools = {"Read", "Write", "Edit"}
  /\ prep.args.disallowedTools = {"Bash", "Computer"}

\* shouldTrigger has returned TRUE: prepare has gone on to prepareContext
Triggered == "prepareContext" \in prep.called

\* C22: Tag mode triggers unconditionally; Agent mode triggers exactly when
\* the configured mode is "agent"; Review mode triggers exactly when the
\* event type is pull request created, updated, approved or unapproved.
C22_TriggerPredicates ==
  (prep.pc # "start" /\ prep.mode \in Modes) =>
     /\ (prep.mode = "tag") => Triggered
     /\ (prep.mode = "agent") => Triggered
     /\ (prep.mode = "experimental-review") =>
           /\ Triggered <=>
                 prep.eventType \in {"pullrequest:created", "pullrequest:updated",
                                     "pullrequest:approved", "pullrequest:unapproved"}
           /\ Triggered <=>
                 \/ prep.trigger = "PULL_REQUEST"
                 \/ prep.trigger = "none" /\ env.prId # 0

\* a push to the branch of an open pull request does not trigger Review mode
C22_Witness ==
  /\ prep.mode = "experimental-review" /\ prep.pc = "returned"
  /\ prep.trigger = "PUSH" /\ env.prId # 0
  /\ prep.eventType = "push"
  /\ ~Triggered /\ ~prep.shouldRun

\* C23: when shouldTrigger returns FALSE, prepare returns shouldRun = FALSE
\* with an empty prompt and without calling prepareContext, and main ends
\* normally: no subprocess, no comment posted, nothing printed; a mode name
\* without a handler makes prepare throw before any subprocess is spawned.
C23_NotTriggeredEndsQuietly ==
  /\ (prep.mode \in Modes /\ prep.pc # "start" /\ ~Triggered) =>
        /\ prep.pc = "returned" /\ ~prep.shouldRun
        /\ prep.prompt.kind = "none" /\ prep.prompt.request = <<>>
        /\ prep.called = {} /\ prep.failed = {}
        /\ mpc \in {"prepare", "done"}
        /\ rpc = "idle" /\ proc = "none" /\ childEnv = {}
        /\ prComments = <<>> /\ consoleOut = <<>>
  /\ (prep.mode \notin Modes /\ prep.pc # "start") =>
        /\ prep.pc = "thrown" /\ prep.called = {}
        /\ mpc \in {"prepare", "exit1"}
        /\ rpc = "idle" /\ proc = "none"

\* Review mode on a push: main has returned, nothing was spawned or posted
C23_Witness ==
  /\ prep.mode = "experimental-review"
  /\ prep.trigger = "PUSH"
  /\ mpc = "done"
  /\ prep.pc = "returned" /\ ~prep.shouldRun /\ prep.called = {}
  /\ proc = "none" /\ prComments = <<>> /\ consoleOut = <<>>

\* the content blocks of the assistant events of a list of lines, in the
\* order of the stream
RECURSIVE BlocksInOrder(_)
BlocksInOrder(lines) ==
  IF lines = <<>> THEN <<>>
  ELSE LET ev == ParseJSON(Head(lines))
       IN  (IF ev.ok /\ ev.type = "assistant" THEN ev.blocks ELSE <<>>)
             \o BlocksInOrder(Tail(lines))

StreamBlocks == BlocksInOrder(ScriptLines)

\* the final turn holds every text block of the stream
CompleteTextTurn ==
  \E a \in DOMAIN turns :
     turns[a].kind = "text" /\ TextBlocksWritten \subseteq Range(turns[a].val)

\* C24: the returned turns list the tool uses in the order of their events,
\* and a text block that arrived before a tool use stands in a turn before
\* the turn of that tool use.
C24_TurnsInStreamOrder ==
  (Returned /\ ExitHandled /\ Quiescent /\ CompleteTextTurn) =>
     \A i, j \in DOMAIN StreamBlocks :
        (i < j /\ StreamBlocks[i].type = "text" /\ StreamBlocks[j].type = "tool_use") =>
           \E a, b \in DOMAIN turns :
              /\ a < b
              /\ turns[a].kind = "text"
              /\ StreamBlocks[i].val \in Range(turns[a].val)
              /\ turns[b] = ToolTurn(StreamBlocks[j].val)

\* C25: once runClaudeCode has returned, no step appends a turn to the
\* returned turn sequence, modifies a turn of it, or changes the returned
\* status and error.
C25_ResultTerminal ==
  [][Returned => (turns' = turns /\ result' = result)]_vars

\* a list of lines fed to a fresh parser as one chunk, no update awaited
FeedOnce(lines) ==
  ProcessLines([content |-> <<>>, turns |-> <<>>,
                c |-> [last |-> 0, call |-> NoCall, pat |-> 0],
                parsed |-> <<>>, t |-> StartTime, stream |-> FALSE],
               lines).st

\* the line is an event the runner handles
Recognized(line) ==
  ParseJSON(line).ok /\ ParseJSON(line).type \in {"assistant", "result", "completion"}

RecognizedLines == SelectSeq(ScriptLines, Recognized)

\* C26: a line that is not valid JSON or is an event of an unrecognized
\* shape is ignored: the accumulated text and the turns are those of the
\* stream without such lines, so the lines after it, in the same chunk and
\* in later chunks, are processed; the status depends on timer and exit
\* code alone, and no parse error is returned.
C26_MalformedIgnored ==
  /\ Quiescent =>
        /\ currentContent = FeedOnce(RecognizedLines).content
        /\ ToolTurns(turns) = FeedOnce(RecognizedLines).turns
  /\ (Returned /\ ExitHandled) =>
        /\ result.status = StatusByExit
        /\ (exitCode = 0 /\ stderrOutput = <<>> /\ timer # "fired") =>
              result.error = ErrNone

\* a line that is not JSON, then an assistant event, then a clean exit
C26_Witness ==
  /\ script = <<"z", NL, "{", "a", "}", NL>>
  /\ Quiescent /\ Returned /\ ExitHandled
  /\ parsed = <<<<"z">>, <<"{", "a", "}">>>>
  /\ currentContent = <<"a">>
  /\ turns = <<TextTurn(<<"a">>)>>
  /\ result = [status |-> "success", error |-> ErrNone]

\* the response text when a terminal event counts only while no text has
\* been accumulated
RECURSIVE TextWithPrecedence(_, _)
TextWithPrecedence(lines, acc) ==
  IF lines = <<>> THEN acc
  ELSE LET ev == ParseJSON(Head(lines))
           next == IF ~ev.ok THEN acc
                   ELSE IF ev.type = "assistant"
                     THEN acc \o TextBlocksInOrder(<<Head(lines)>>)
                   ELSE IF ev.type \in {"result", "completion"} /\ acc = <<>>
                     THEN ev.text
                   ELSE acc
       IN  TextWithPrecedence(Tail(lines), next)

\* C27: the text of a terminal event (result or legacy completion) becomes
\* the response text only if no text has been accumulated before it; once
\* text is accumulated no later terminal event replaces it.
C27_IncrementalTextWins ==
  Quiescent => currentContent = TextWithPrecedence(ScriptLines, <<>>)

\* C28: with streaming comments disabled the runner issues no partial
\* update, neither the initial placeholder nor one per text block: the only
\* call of updateCommentStream is the final one, and no partial comment
\* appears on the pull request.
C28_NoPartialWithoutStreaming ==
  ~opts.streaming =>
     /\ ~lastCall.partial /\ partialAt = 0
     /\ (lastCall.outcome # "none") => ExitHandled
     /\ rpc # "initPost" /\ handlers = <<>>
     /\ mainPost.kind \in {"none", "final"}
     /\ \A i \in DOMAIN prComments : prComments[i].kind # "partial"

\* token and pull request, streaming off, two text lines: one final comment
C28_Witness ==
  /\ HasPR /\ ~opts.streaming
  /\ Returned /\ Quiescent
  /\ currentContent = <<"a", "a">>
  /\ ~lastCall.partial /\ lastCall.outcome = "remote"
  /\ prComments = <<FormatContent(FALSE, <<"a", "a">>, "success")>>

\* Tag or Review mode has fetched the comments and scanned them
ScanDone ==
  /\ prep.mode \in {"tag", "experimental-review"} /\ Triggered
  /\ prep.pc \in {"diff", "branch", "returned", "invoked"}
  /\ env.token /\ env.prId # 0
  /\ "comments" \notin prep.failed

\* prepareContext has returned without a list of comments to scan
NothingScanned ==
  /\ prep.mode \in {"tag", "experimental-review"} /\ Triggered
  /\ prep.pc \in {"returned", "invoked"}
  /\ (~env.token \/ env.prId = 0 \/ "comments" \in prep.failed)

NewestMention == CHOOSE i \in MentionIds : \A j \in MentionIds : j <= i

\* C29: in Tag and Review mode the parent comment id is the id of the
\* matching comment, inline or top-level; when that comment is inline its
\* path and line range are the inlineContext, the end line being the start
\* line when the comment has none; without a matching comment both are unset.
C29_InlineContextAndParent ==
  /\ (ScanDone /\ MentionIds # {}) =>
        LET c == prep.remote[NewestMention] IN
        /\ prep.parent = NewestMention
        /\ (c.inline = NoInline) => prep.inline = NoInline
        /\ (c.inline # NoInline) =>
              /\ prep.inline.path = c.inline.path
              /\ prep.inline.from = c.inline.from
              /\ prep.inline.to = IF c.inline.to = 0 THEN c.inline.from
                                  ELSE c.inline.to
  /\ ((ScanDone /\ MentionIds = {}) \/ NothingScanned) =>
        (prep.inline = NoInline /\ prep.parent = 0)

\* Review mode; the newest mention is an inline comment without an end line
C29_Witness ==
  /\ ScanDone /\ prep.mode = "experimental-review" /\ prep.pc = "invoked"
  /\ Len(prep.remote) = 2 /\ MentionIds = {1, 2}
  /\ prep.remote[2].inline = [path |-> "src/a.ts", from |-> 3, to |-> 0]
  /\ prep.inline = [path |-> "src/a.ts", from |-> 3, to |-> 3]
  /\ prep.parent = 2

\* prepareContext of Tag or Review mode has returned
TagOrReviewPrepared ==
  /\ prep.mode \in {"tag", "experimental-review"} /\ Triggered
  /\ prep.pc \in {"returned", "invoked"}

\* C30: in Tag and Review mode pinned allowedTools are passed through
\* unchanged, with the pinned blockedTools, whatever the classifier says
\* about the request; Review mode without pinned tools and without a user
\* request selects allowed Read, Grep and blocked Write, Edit, MultiEdit,
\* Bash, Computer.
C30_PinnedToolsPassThrough ==
  /\ (TagOrReviewPrepared /\ prep.pinned) =>
        /\ prep.allowedTools = PinnedTools
        /\ prep.blockedTools = IF prep.pinnedBlocked THEN PinnedBlocked ELSE {}
        /\ (prep.pc = "invoked") =>
              prep.args = [allowedTools |-> PinnedTools,
                           disallowedTools |-> prep.blockedTools]
  /\ (/\ TagOrReviewPrepared /\ prep.mode = "experimental-review"
      /\ ~prep.pinned /\ prep.userRequest = <<>>) =>
        /\ prep.allowedTools = {"Read", "Grep"}
        /\ prep.blockedTools = {"Write", "Edit", "MultiEdit", "Bash", "Computer"}
        /\ (prep.pc = "invoked") =>
              prep.args = [allowedTools |-> prep.allowedTools,
                           disallowedTools |-> prep.blockedTools]

\* Review mode, pinned tools, a request classified actionable
C30_Witness ==
  /\ prep.mode = "experimental-review" /\ prep.pc = "invoked" /\ mpc = "run"
  /\ prep.pinned /\ prep.auto
  /\ prep.userRequest = <<"please", "fix", "it">>
  /\ prep.type = "actionable"
  /\ prep.args.allowedTools = PinnedTools

\* C31: every text of at least 10 characters that matches no actionable
\* pattern is classified "informational", whether or not an informational
\* pattern matches it.
C31_DefaultInformational ==
  (Classified /\ TextLength(prep.text.words) >= 10 /\ ~MatchesActionable) =>
     prep.type = "informational"

\* "please it it": 12 characters, no pattern of either list matches
C31_Witness ==
  /\ Classified
  /\ prep.text.words = <<"please", "it", "it">>
  /\ ~MatchesActionable /\ ~MatchesInformational
  /\ prep.type = "informational"

\* C32: a partial update is never suppressed because of an update accepted
\* during an earlier invocation of runClaudeCode in the same process: the
\* last-update time a suppressed call has read was set in its own invocation.
C32_ThrottleResetPerInvocation ==
  (lastCall.partial /\ lastCall.outcome = "suppressed") =>
     lastCall.lastBy = lastCall.run

\* the final update of the run has been issued
FinalIssued == ~lastCall.partial /\ lastCall.outcome # "none"

\* C33: within one run no partial update is issued to updateCommentStream
\* after the final update has been issued, for every interleaving of
\* stdout delivery, awaited partial posts and the exit event.
C33_FinalUpdateIsLast ==
  [][FinalIssued => ~lastCall'.partial]_vars

\* C34: once the timeout callback has run, no later event of the subprocess
\* (its exit event or its error event) makes runClaudeCode return a status
\* other than "timeout"; a failure of the final post is left aside.
C34_TimeoutStatusSticks ==
  (timer = "fired" /\ Returned /\ result.error # ErrThrown("update"))
    => result.status = "timeout"

\* the timeout callback has run on a subprocess that was spawned and had
\* not exited
TimedOut == timer = "fired" /\ proc \in {"running", "killfail"}

\* C35: every invocation of runClaudeCode returns, and a run whose timeout
\* fired returns with status "timeout", under the scheduling LiveFairness.
C35_TimeoutRunReturnsTimeout ==
  TimedOut ~> (Returned /\ result.status = "timeout")

\* every invocation that has begun returns at some point
EveryRunReturns == (rpc # "idle") ~> Returned

\* the wait for the subprocess has ended: its exit was handled or the run
\* has returned
WaitEnded == ExitHandled \/ Returned

\* C36: once the wait for the subprocess has ended (exit event or error
\* event handled), the timeout timer is not armed, and no later step fires
\* it or sets the status to "timeout".
C36_TimerCancelledAfterWait ==
  [][WaitEnded => /\ timer # "armed"
                  /\ timer' = timer
                  /\ (status' = "timeout" => status = "timeout")]_vars

\* the exit handler cancelled a timer that was still armed and the run
\* returned
C36_Witness == ExitHandled /\ Returned /\ timer = "cleared"

\* C37: a returned result with status "success" carries no error message.
C37_SuccessHasNoError ==
  (Returned /\ result.status = "success") => result.error = ErrNone

\* the line holds something other than whitespace
NonBlank(line) == Trim(line) # <<>>

\* every event line the subprocess has written, the last one with or
\* without its newline
WrittenLines == SelectSeq(SplitOn(script, NL), Recognized)

\* the lines handed to JSON.parse are the lines ended by a newline
TerminatedLinesParsed ==
  (Quiescent /\ ExitHandled) => parsed = SelectSeq(ScriptLines, NonBlank)

\* C38: when the whole output has been delivered and the exit handled, every
\* event line the subprocess wrote has been handed to the parser, the last
\* line without a newline included, and without an awaited update the text
\* and the tool turns are those of all the written event lines.
C38_LastLineApplied ==
  (Quiescent /\ ExitHandled) =>
     /\ SelectSeq(parsed, Recognized) = WrittenLines
     /\ ~StreamOn => /\ currentContent = FeedOnce(WrittenLines).content
                     /\ ToolTurns(turns) = FeedOnce(WrittenLines).turns

\* prepareContext of Tag mode has gone past the scan of the comments of a
\* pull request, with or without a fetched list
TagPastScan ==
  /\ prep.mode = "tag" /\ Triggered /\ env.prId # 0
  /\ prep.pc \in {"diff", "branch", "returned", "invoked"}

\* no fetched comment holds the trigger phrase
NoFetchedMention ==
  ~env.token \/ "comments" \in prep.failed \/ MentionIds = {}

\* C39: in Tag mode the user request, the trigger source "comment", the
\* comment id and the reply parent come from the most recent fetched comment
\* with the trigger phrase, also when the description holds the phrase; the
\* description is the trigger source, and gives the request, exactly when it
\* holds the phrase and no fetched comment does.
C39_CommentBeforeDescription ==
  TagPastScan =>
     /\ ~NoFetchedMention =>
           /\ prep.triggerSource = "comment"
           /\ prep.parent = NewestMention /\ prep.commentId = NewestMention
           /\ prep.userRequest =
                RequestOr(AfterTrigger(prep.remote[NewestMention].words),
                          DefaultHelp)
     /\ (prep.triggerSource = "description") <=>
           (Includes(prep.description) /\ NoFetchedMention)
     /\ (prep.triggerSource = "description") =>
           prep.userRequest = RequestOr(AfterTrigger(prep.description),
                                        DefaultReview)

\* the description and two fetched comments hold the phrase; the request is
\* that of the second comment
C39_Witness ==
  /\ TagPastScan /\ prep.pc = "invoked"
  /\ Includes(prep.description)
  /\ Len(prep.remote) = 2 /\ MentionIds = {1, 2}
  /\ prep.remote[1].words = <<TriggerPhrase, "please", "fix", "it">>
  /\ prep.remote[2].words = <<TriggerPhrase, "explain", "it", "please">>
  /\ prep.triggerSource = "comment" /\ prep.parent = 2
  /\ prep.userRequest = <<"explain", "it", "please">>

\* C40: when Tag mode runs with auto-detection on and no pinned allowed
\* tools, the command line of the subprocess carries an allow-list and a
\* block-list, in the pull-request, the commit and the general variant.
C40_TagAlwaysRestrictsTools ==
  (prep.mode = "tag" /\ prep.pc = "invoked" /\ prep.auto /\ ~prep.pinned) =>
     /\ prep.args.allowedTools # {}
     /\ prep.args.disallowedTools # {}

\* the same for the pull-request variant alone
TagRestrictsToolsOnPullRequest ==
  (/\ prep.mode = "tag" /\ prep.pc = "invoked" /\ prep.auto /\ ~prep.pinned
   /\ env.prId # 0) =>
     /\ prep.args.allowedTools # {}
     /\ prep.args.disallowedTools # {}

====
